---- MODULE Spec2Model ----
(***************************************************************************)
(* Model of src/main.py: the Gemini price-deviation checker.               *)
(*                                                                         *)
(* check_currency asks the exchange for the list of currency pairs,        *)
(* narrows it to the requested pair, starts one thread per pair running    *)
(* process_currency_pair, and joins them all.  Each thread fetches the     *)
(* pair's ticker, computes the standard deviation of its `changes` and     *)
(* prints an alert when it exceeds the threshold.                          *)
(*                                                                         *)
(* Numbers.  The program computes in Python floats.  A float is modelled   *)
(* as a binary floating-point number [m, e] (value m * 2^e) whose mantissa *)
(* has Precision bits and whose exponent is unbounded; every operation     *)
(* rounds its exact result to the nearest such number, ties to even, as    *)
(* IEEE-754 arithmetic does.  Python's mantissa has 53 bits; Precision is  *)
(* kept small so that the arithmetic stays inside TLC's integers.          *)
(* Infinities, NaN, signed zero and subnormals are not modelled.           *)
(* A decimal string such as "0.1" is modelled by its number of tenths (1). *)
(***************************************************************************)
EXTENDS Integers, Sequences, FiniteSets, Bags, TLC

\* ------------------------------------------------------------- bounds --
\* Mantissa width of the modelled floats.
Precision == 5
\* Longest list of prices handed to calculate_standard_deviation in SpecSD.
MaxLen == 3
\* Longest list of pairs the symbols endpoint returns.
MaxPairs == 2

\* ------------------------------------------------------- float numbers --
Abs(n) == IF n < 0 THEN -n ELSE n

Sign(n) == IF n < 0 THEN -1 ELSE 1

Pow2(k) == 2 ^ k

Zero == [m |-> 0, e |-> 0]

\* floor(log2(a/d)) for a >= d > 0.
Log2Up(a, d) ==
    LET up[l \in Nat] == IF a >= d * Pow2(l + 1) THEN up[l + 1] ELSE l
    IN  up[0]

\* floor(log2(a/d)) for 0 < a < d.
Log2Down(a, d) ==
    LET down[l \in Nat] == IF a * Pow2(l) >= d THEN -l ELSE down[l + 1]
    IN  down[1]

\* floor(log2(a/d)) for a, d > 0.
FloorLog2(a, d) == IF a >= d THEN Log2Up(a, d) ELSE Log2Down(a, d)

\* num/den rounded to the nearest integer, ties to the even one.
RoundHalfEven(num, den) ==
    LET q == num \div den
        r == num % den
    IN  IF 2 * r < den THEN q
        ELSE IF 2 * r > den THEN q + 1
        ELSE q + (q % 2)

\* The float nearest to the rational (n/d) * 2^e, d > 0.
Round(n, d, e) ==
    IF n = 0 THEN Zero
    ELSE LET a   == Abs(n)
             k   == FloorLog2(a, d) - (Precision - 1)
             num == IF k >= 0 THEN a ELSE a * Pow2(-k)
             den == IF k >= 0 THEN d * Pow2(k) ELSE d
             m   == RoundHalfEven(num, den)
         IN  IF m = Pow2(Precision)
             THEN [m |-> Sign(n) * Pow2(Precision - 1), e |-> e + k + 1]
             ELSE [m |-> Sign(n) * m, e |-> e + k]

\* float(price): a decimal string with one fractional digit, given in tenths.
float(tenths) == Round(tenths, 10, 0)

\* float(n) of an int n (len(prices)).
FromInt(n) == Round(n, 1, 0)

MinExp(a, b) ==
    IF a.m = 0 THEN b.e ELSE IF b.m = 0 THEN a.e
    ELSE IF a.e < b.e THEN a.e ELSE b.e

\* The mantissa of a at the exponent e <= a.e (exact).
Scaled(a, e) == IF a.m = 0 THEN 0 ELSE a.m * Pow2(a.e - e)

\* a + b
Add(a, b) == LET e == MinExp(a, b) IN Round(Scaled(a, e) + Scaled(b, e), 1, e)

\* a - b
Sub(a, b) == LET e == MinExp(a, b) IN Round(Scaled(a, e) - Scaled(b, e), 1, e)

\* a * b
Mul(a, b) == Round(a.m * b.m, 1, a.e + b.e)

\* a / b, b # 0
Div(a, b) == Round(a.m * Sign(b.m), Abs(b.m), a.e - b.e)

\* a > b
Gt(a, b) == LET e == MinExp(a, b) IN Scaled(a, e) > Scaled(b, e)

\* floor(sqrt(n)) for 0 <= n < 4^(bits + 1), found bit by bit from the top.
ISqrt(n, bits) ==
    LET root[k \in Nat] ==
            IF k = 0 THEN 0
            ELSE LET r == root[k - 1]
                     t == r + Pow2(bits + 1 - k)
                 IN  IF t * t <= n THEN t ELSE r
    IN  root[bits + 1]

\* a ** 0.5, a >= 0: the float nearest to the square root.
Sqrt(a) ==
    IF a.m = 0 THEN Zero
    ELSE LET m2 == IF a.e % 2 = 0 THEN a.m ELSE 2 * a.m
             e2 == IF a.e % 2 = 0 THEN a.e ELSE a.e - 1
             m3 == m2 * Pow2(2 * Precision)
             r  == ISqrt(m3, 2 * Precision)
             st == IF r * r = m3 THEN 0 ELSE 1
         IN  Round(2 * r + st, 1, (e2 \div 2) - Precision - 1)

\* sum(prices): left to right, starting from 0.
sum(fs) ==
    LET partial[i \in Nat] == IF i = 0 THEN Zero ELSE Add(partial[i - 1], fs[i])
    IN  partial[Len(fs)]

\* format(x, '.2f'): the decimal with two fractional digits nearest to x,
\* given in hundredths.
format2f(x) ==
    IF x.m = 0 THEN 0
    ELSE IF x.e >= 0 THEN x.m * Pow2(x.e) * 100
    ELSE Sign(x.m) * RoundHalfEven(Abs(x.m) * 100, Pow2(-x.e))

\* ----------------------------------------- calculate_standard_deviation --
\* [float(price) for price in prices]
Floats(prices) == [i \in 1..Len(prices) |-> float(prices[i])]

\* mean = sum(prices) / len(prices)
Mean(fs) == Div(sum(fs), FromInt(Len(fs)))

\* squared_diffs = [(price - mean) ** 2 for price in prices]
SquaredDiffs(fs, mean) ==
    [i \in 1..Len(fs) |-> LET d == Sub(fs[i], mean) IN Mul(d, d)]

\* Variance with the sample divisor: count - 1 in place of count.
VarianceSample(fs) ==
    Div(sum(SquaredDiffs(fs, Mean(fs))),
        FromInt(IF Len(fs) > 1 THEN Len(fs) - 1 ELSE 1))

\* variance = sum(squared_diffs) / len(prices)
Variance(fs) == Div(sum(SquaredDiffs(fs, Mean(fs))), FromInt(Len(fs)))

\* calculate_standard_deviation(prices): the float returned, or the
\* ZeroDivisionError that mean = sum(prices) / len(prices) raises on [].
calculate_standard_deviation(prices) ==
    IF Len(prices) = 0
    THEN [exc |-> "ZeroDivisionError", value |-> Zero]
    ELSE [exc |-> "", value |-> Sqrt(Variance(Floats(prices)))]

\* The lines calculate_standard_deviation prints under debug.
CalculateDebugLines == <<"Prices", "Mean", "Variance", "Standard Deviation">>

\* The price strings a lone call is tried on, in tenths.
PriceStrings == {1, 9, 10, 30, 50, -20}

\* ------------------------------------------------------------ exchange --
\* The currency pairs the exchange may list.
Pairs == {"btcusd", "ethusd"}

\* Values of --currency.
Currencies == {"ALL"} \cup Pairs

\* Values of --deviation, in tenths (1.0 is the default).
Deviations == {0, 10}

\* Values of --log-level.
LogLevels == {"INFO", "CRITICAL"}

\* Readings of datetime.datetime.now.
Timestamps == {"2026-01-01T00:00:00+00:00"}

\* The sequences over S of length at most n.
SeqsUpTo(S, n) == UNION {[1..k -> S] : k \in 0..n}

\* A ticker JSON object: `keys` are the keys present; the value of an
\* absent key is never read.
Snapshot(keys, open, close, changes) ==
    [keys |-> keys, open |-> open, close |-> close, changes |-> changes]

EmptySnapshot == Snapshot({}, 0, 0, <<>>)

\* The `changes` series the exchange may send, in tenths.
ChangesSeries == {<<>>, <<10, 30>>, <<10, 50>>}

\* The JSON objects the ticker endpoint may answer with.
Snapshots ==
    {EmptySnapshot, Snapshot({"open", "close"}, 10, 30, <<>>)}
    \cup {Snapshot({"open", "close", "changes"}, 10, 30, c) : c \in ChangesSeries}
    \cup {Snapshot({"open", "changes"}, 10, 0, c) : c \in ChangesSeries \ {<<>>}}

\* What requests.get may do: answer 200 with a body, answer another status,
\* or raise requests.exceptions.Timeout after DEFAULT_TIMEOUT seconds.
Response(outcome, status_code, json) ==
    [outcome |-> outcome, status_code |-> status_code, json |-> json]

NoResponse == Response("none", 0, EmptySnapshot)

SymbolsResponses ==
    {Response("answer", 200, l) : l \in SeqsUpTo(Pairs, MaxPairs)}
    \cup {Response("answer", 500, <<>>), Response("timeout", 0, <<>>)}

TickerResponses ==
    {Response("answer", 200, s) : s \in Snapshots}
    \cup {Response("answer", 500, EmptySnapshot), Response("timeout", 0, EmptySnapshot)}

Endpoint(path, pair) == [path |-> path, pair |-> pair]

\* -------------------------------------------------------------- output --
NoData ==
    [timestamp |-> "", level |-> "", last_price |-> 0, average |-> 0,
     change |-> 0, sdev |-> Zero]

\* One printed line.
Line(kind, text, pair, data) ==
    [kind |-> kind, text |-> text, pair |-> pair, data |-> data]

\* The lines printed by `if debug: print(...)`, one per text.
DebugLines(debug, texts, pair) ==
    IF debug THEN [i \in 1..Len(texts) |-> Line("debug", texts[i], pair, NoData)]
    ELSE <<>>

\* --------------------------------------------------------------- state --
\* The command line: --currency, --deviation (tenths), --log-level.
VARIABLES currency, deviation, log_level

\* run[debug]: the run of check_currency with --debug set (TRUE) and the run
\* without it (FALSE), on the same command line otherwise.  The two runs are
\* given the same exchange responses, clock readings and schedule.
\*   pc              where check_currency is
\*   path            how it ended: "no_pairs", "invalid_pair", "joined",
\*                   "exception"
\*   response        the answer to the symbols request
\*   available_pairs the local of check_currency
\*   threads         the list `threads`; a thread is
\*                     pair, pc, response, ticker_data, standard_deviation,
\*                     out (the lines it printed), err (the exception that
\*                     ended it, reported on stderr by threading.excepthook)
\*   joined          how many threads the join loop has joined
\*   stdout          the lines check_currency itself printed; the lines of
\*                   different threads reach stdout in no fixed order, so
\*                   each thread's lines are kept with the thread
\*   requests        the bag of requests sent to the exchange
VARIABLE run

\* The argument and the result of a lone call of
\* calculate_standard_deviation (specification SpecSD).
VARIABLES sd_prices, sd_pc, sd_result

vars == <<currency, deviation, log_level, run, sd_prices, sd_pc, sd_result>>

Thread(pair) ==
    [pair |-> pair, pc |-> "get_ticker_data", response |-> NoResponse,
     ticker_data |-> EmptySnapshot, standard_deviation |-> Zero,
     out |-> <<>>, err |-> ""]

InitRun ==
    [pc |-> "get_currency_pairs", path |-> "", response |-> Response("none", 0, <<>>),
     available_pairs |-> <<>>, threads |-> <<>>, joined |-> 0, stdout |-> <<>>,
     requests |-> EmptyBag]

Init ==
    /\ currency \in Currencies
    /\ deviation \in Deviations
    /\ log_level \in LogLevels
    /\ run = [debug \in BOOLEAN |-> InitRun]
    /\ sd_prices = <<>>
    /\ sd_pc = "idle"
    /\ sd_result = [exc |-> "", value |-> Zero]

\* ---------------------------------------------------- get_currency_pairs --
\* get_currency_pairs raising on a status other than 200 (as
\* response.raise_for_status() would) instead of returning [].
get_currency_pairs_raising(r, resp, debug) ==
    LET sent == [r EXCEPT !.requests = @ (+) SetToBag({Endpoint("/v1/symbols", "")}),
                          !.response = resp]
    IN  IF resp.outcome = "timeout" \/ resp.status_code # 200
        THEN [sent EXCEPT !.pc = "raised", !.path = "exception"]
        ELSE [sent EXCEPT !.available_pairs = resp.json,
                          !.stdout = @ \o DebugLines(debug, <<"API call", "Response">>, ""),
                          !.pc = "resolve"]

\* get_currency_pairs(debug) as called at line 165, given what requests.get
\* does: the answer is kept in r.response, the list returned in
\* r.available_pairs; a Timeout propagates out of check_currency.
get_currency_pairs(r, resp, debug) ==
    LET sent == [r EXCEPT !.requests = @ (+) SetToBag({Endpoint("/v1/symbols", "")}),
                          !.response = resp]
    IN  IF resp.outcome = "timeout"
        THEN [sent EXCEPT !.pc = "raised", !.path = "exception"]
        ELSE IF resp.status_code = 200
        THEN [sent EXCEPT !.available_pairs = resp.json,
                          !.stdout = @ \o DebugLines(debug, <<"API call", "Response">>, ""),
                          !.pc = "resolve"]
        ELSE [sent EXCEPT !.available_pairs = <<>>,
                          !.stdout = @ \o DebugLines(debug, <<"API call", "Error">>, ""),
                          !.pc = "resolve"]

\* ------------------------------------------------------- check_currency --
InSeq(x, s) == \E i \in 1..Len(s) : s[i] = x

\* resolve_pairs without line 175: a valid pair leaves the whole list in
\* place.
resolve_pairs_whole_list(r, cur) ==
    IF r.available_pairs = <<>>
    THEN [r EXCEPT !.stdout = Append(@, Line("message", "No currency pairs available.", "", NoData)),
                   !.pc = "returned", !.path = "no_pairs"]
    ELSE IF cur # "ALL" /\ ~InSeq(cur, r.available_pairs)
    THEN [r EXCEPT !.stdout = Append(@, Line("message", "Invalid currency pair", cur, NoData)),
                   !.pc = "returned", !.path = "invalid_pair"]
    ELSE [r EXCEPT !.pc = "start"]

\* Lines 167-175: stop when there are no pairs or the pair is unknown, else
\* narrow the list to the requested pair.
resolve_pairs(r, cur) ==
    IF r.available_pairs = <<>>
    THEN [r EXCEPT !.stdout = Append(@, Line("message", "No currency pairs available.", "", NoData)),
                   !.pc = "returned", !.path = "no_pairs"]
    ELSE IF cur # "ALL"
    THEN IF ~InSeq(cur, r.available_pairs)
         THEN [r EXCEPT !.stdout = Append(@, Line("message", "Invalid currency pair", cur, NoData)),
                        !.pc = "returned", !.path = "invalid_pair"]
         ELSE [r EXCEPT !.available_pairs = <<cur>>, !.pc = "start"]
    ELSE [r EXCEPT !.pc = "start"]

\* start_thread handing every thread the first pair of the list.
start_thread_first_pair(r) ==
    [r EXCEPT !.threads = Append(@, Thread(r.available_pairs[1])),
              !.pc = IF Len(r.threads) + 1 < Len(r.available_pairs)
                     THEN "start" ELSE "join"]

\* Lines 178-181: one iteration of the loop that creates, records and starts
\* a thread for the next pair.
start_thread(r) ==
    LET pair == r.available_pairs[Len(r.threads) + 1]
        more == Len(r.threads) + 1 < Len(r.available_pairs)
    IN  [r EXCEPT !.threads = Append(@, Thread(pair)),
                  !.pc = IF more THEN "start" ELSE "join"]

Terminated(t) == t.pc \in {"finished", "raised"}

\* CanJoin for a join that does not wait for the thread to end.
CanJoinRunning(r) ==
    /\ r.pc = "join"
    /\ r.joined < Len(r.threads)

\* Lines 183-184: thread.join() returns once the thread has ended, whether
\* it returned or raised; after the last join check_currency returns.
CanJoin(r) ==
    /\ r.pc = "join"
    /\ r.joined < Len(r.threads)
    /\ Terminated(r.threads[r.joined + 1])

join_thread(r) ==
    [r EXCEPT !.joined = @ + 1,
              !.pc = IF r.joined + 1 = Len(r.threads) THEN "returned" ELSE "join",
              !.path = IF r.joined + 1 = Len(r.threads) THEN "joined" ELSE @]

\* ------------------------------------------------- process_currency_pair --
\* get_ticker_data(currency_pair, debug) as called at line 130 by thread t,
\* given what requests.get does; a Timeout ends the thread.
get_ticker_data(t, resp, debug) ==
    IF resp.outcome = "timeout"
    THEN [t EXCEPT !.response = resp, !.pc = "raised", !.err = "Timeout"]
    ELSE IF resp.status_code = 200
    THEN [t EXCEPT !.response = resp, !.ticker_data = resp.json,
                   !.out = @ \o DebugLines(debug, <<"API call", "Response">>, t.pair),
                   !.pc = "check_data"]
    ELSE [t EXCEPT !.response = resp, !.ticker_data = EmptySnapshot,
                   !.out = @ \o DebugLines(debug, <<"API call", "Error">>, t.pair),
                   !.pc = "check_data"]

\* check_data with the `return` of line 135 indented under `if debug:`.
check_data_return_under_debug(t, debug) ==
    IF (t.ticker_data.keys = {} \/ "changes" \notin t.ticker_data.keys) /\ debug
    THEN [t EXCEPT !.out = @ \o DebugLines(debug, <<"No data available">>, t.pair),
                   !.pc = "finished"]
    ELSE [t EXCEPT !.pc = "calculate"]

\* Lines 132-135: if not ticker_data or 'changes' not in ticker_data: return
check_data(t, debug) ==
    IF t.ticker_data.keys = {} \/ "changes" \notin t.ticker_data.keys
    THEN [t EXCEPT !.out = @ \o DebugLines(debug, <<"No data available">>, t.pair),
                   !.pc = "finished"]
    ELSE [t EXCEPT !.pc = "calculate"]

\* Lines 130-135: fetch the ticker and return early when it has no data.
fetch(t, resp, debug) ==
    LET u == get_ticker_data(t, resp, debug)
    IN  IF u.pc = "raised" THEN u ELSE check_data(u, debug)

\* calculate_standard_deviation on each series the exchange may send,
\* computed once.
StandardDeviationOf == [c \in ChangesSeries |-> calculate_standard_deviation(c)]

\* Line 139: sum([float(price) for price in changes]) / len(changes), on
\* each non-empty series the exchange may send, computed once.
AverageOf ==
    [c \in ChangesSeries \ {<<>>} |-> Div(sum(Floats(c)), FromInt(Len(c)))]

\* Lines 139-146: the alert_data dictionary; prices in tenths, the two
\* formatted numbers in hundredths.
alert_data(t, sd, level, now) ==
    [timestamp |-> now, level |-> level,
     last_price |-> t.ticker_data.close,
     average |-> format2f(AverageOf[t.ticker_data.changes]),
     change |-> format2f(Sub(float(t.ticker_data.close), float(t.ticker_data.open))),
     sdev |-> sd]

\* The first key of line 141 that ticker_data lacks ("" if none): reading it
\* raises KeyError.
MissingKey(t) ==
    IF "close" \notin t.ticker_data.keys THEN "close"
    ELSE IF "open" \notin t.ticker_data.keys THEN "open"
    ELSE ""

\* Lines 136-147: compute the standard deviation of ticker_data['changes']
\* and print the alert if it exceeds the threshold.
evaluate(t, dev, level, now, debug) ==
    LET sd == StandardDeviationOf[t.ticker_data.changes]
    IN  IF sd.exc # ""
        THEN [t EXCEPT !.pc = "raised", !.err = sd.exc]
        ELSE LET u == [t EXCEPT !.standard_deviation = sd.value,
                                !.out = @ \o DebugLines(debug, CalculateDebugLines, t.pair)]
             IN  IF Gt(sd.value, float(dev))
                 THEN IF MissingKey(t) # ""
                      THEN [u EXCEPT !.pc = "raised", !.err = "KeyError"]
                      ELSE [u EXCEPT !.out = Append(@, Line("alert", "", t.pair,
                                                           alert_data(t, sd.value, level, now))),
                                     !.pc = "finished"]
                 ELSE [u EXCEPT !.pc = "finished"]

\* ------------------------------------------------------------- actions --
\* Each action is one step of the program, taken by the run with --debug and
\* the run without it alike: every run that is at the step takes it, with its
\* own debug flag and the same input.
AtThread(r, i, pc) == i <= Len(r.threads) /\ r.threads[i].pc = pc

AtStart(r) == r.pc = "get_currency_pairs"

AtResolve(r) == r.pc = "resolve"

AtLoop(r) == r.pc = "start"

Ticker(pair) == SetToBag({Endpoint("/v2/ticker", pair)})

GetCurrencyPairs ==
    /\ \E debug \in BOOLEAN : AtStart(run[debug])
    /\ \E resp \in SymbolsResponses :
        run' = [debug \in BOOLEAN |->
                   IF AtStart(run[debug])
                   THEN get_currency_pairs(run[debug], resp, debug)
                   ELSE run[debug]]
    /\ UNCHANGED <<currency, deviation, log_level, sd_prices, sd_pc, sd_result>>

ResolvePairs ==
    /\ \E debug \in BOOLEAN : AtResolve(run[debug])
    /\ run' = [debug \in BOOLEAN |->
                  IF AtResolve(run[debug])
                  THEN resolve_pairs(run[debug], currency)
                  ELSE run[debug]]
    /\ UNCHANGED <<currency, deviation, log_level, sd_prices, sd_pc, sd_result>>

StartThread ==
    /\ \E debug \in BOOLEAN : AtLoop(run[debug])
    /\ run' = [debug \in BOOLEAN |->
                  IF AtLoop(run[debug]) THEN start_thread(run[debug]) ELSE run[debug]]
    /\ UNCHANGED <<currency, deviation, log_level, sd_prices, sd_pc, sd_result>>

JoinThread ==
    /\ \E debug \in BOOLEAN : CanJoin(run[debug])
    /\ run' = [debug \in BOOLEAN |->
                  IF CanJoin(run[debug]) THEN join_thread(run[debug]) ELSE run[debug]]
    /\ UNCHANGED <<currency, deviation, log_level, sd_prices, sd_pc, sd_result>>

GetTickerData(i) ==
    /\ \E debug \in BOOLEAN : AtThread(run[debug], i, "get_ticker_data")
    /\ \E resp \in TickerResponses :
        run' = [debug \in BOOLEAN |->
                   IF AtThread(run[debug], i, "get_ticker_data")
                   THEN [run[debug] EXCEPT
                            !.threads[i] = fetch(@, resp, debug),
                            !.requests = @ (+) Ticker(run[debug].threads[i].pair)]
                   ELSE run[debug]]
    /\ UNCHANGED <<currency, deviation, log_level, sd_prices, sd_pc, sd_result>>

\* Evaluate with ticker_data a variable the threads share: thread i reads
\* what the first thread stored.
EvaluateShared(i) ==
    /\ \E debug \in BOOLEAN : AtThread(run[debug], i, "calculate")
    /\ \E now \in Timestamps :
        run' = [debug \in BOOLEAN |->
                   IF AtThread(run[debug], i, "calculate")
                   THEN [run[debug] EXCEPT
                            !.threads[i] =
                                evaluate([@ EXCEPT !.ticker_data =
                                                       run[debug].threads[1].ticker_data],
                                         deviation, log_level, now, debug)]
                   ELSE run[debug]]
    /\ UNCHANGED <<currency, deviation, log_level, sd_prices, sd_pc, sd_result>>

Evaluate(i) ==
    /\ \E debug \in BOOLEAN : AtThread(run[debug], i, "calculate")
    /\ \E now \in Timestamps :
        run' = [debug \in BOOLEAN |->
                   IF AtThread(run[debug], i, "calculate")
                   THEN [run[debug] EXCEPT
                            !.threads[i] = evaluate(@, deviation, log_level, now, debug)]
                   ELSE run[debug]]
    /\ UNCHANGED <<currency, deviation, log_level, sd_prices, sd_pc, sd_result>>

Next ==
    \/ GetCurrencyPairs
    \/ ResolvePairs
    \/ StartThread
    \/ JoinThread
    \/ \E i \in 1..MaxPairs : GetTickerData(i)
    \/ \E i \in 1..MaxPairs : Evaluate(i)

Spec == Init /\ [][Next]_vars

\* ------------------------------- a lone call of the dispersion function --
InitSD ==
    /\ currency = "ALL"
    /\ deviation = 10
    /\ log_level = "INFO"
    /\ run = [debug \in BOOLEAN |-> InitRun]
    /\ sd_prices \in SeqsUpTo(PriceStrings, MaxLen)
    /\ sd_pc = "call"
    /\ sd_result = [exc |-> "", value |-> Zero]

\* calculate_standard_deviation(sd_prices) returns or raises.
Calculate ==
    /\ sd_pc = "call"
    /\ sd_result' = calculate_standard_deviation(sd_prices)
    /\ sd_pc' = IF sd_result'.exc = "" THEN "returned" ELSE "raised"
    /\ UNCHANGED <<currency, deviation, log_level, run, sd_prices>>

NextSD == Calculate

SpecSD == InitSD /\ [][NextSD]_vars

\* ====================================================== the claims ======

\* The lines of a stream that are not debug tracing, and its alerts.
NonDebug(lines) == SelectSeq(lines, LAMBDA l : l.kind # "debug")

Alerts(lines) == SelectSeq(lines, LAMBDA l : l.kind = "alert")

Range(s) == {s[i] : i \in 1..Len(s)}

\* The pairs of the threads started so far.
Launched(r) == {r.threads[i].pair : i \in 1..Len(r.threads)}

\* The only request sent is the one for the list of pairs.
SymbolsOnly(r) == r.requests = SetToBag({Endpoint("/v1/symbols", "")})

\* The symbols endpoint answered 200 with a non-empty list.
ListedPairs(r) ==
    /\ r.response.outcome = "answer"
    /\ r.response.status_code = 200
    /\ r.response.json # <<>>

\* The symbols endpoint answered another status, or 200 with an empty list.
PairsUnavailable(r) ==
    /\ r.response.outcome = "answer"
    /\ r.response.status_code # 200 \/ r.response.json = <<>>

\* check_currency is past lines 165-175.
Resolved(r) == r.pc \notin {"get_currency_pairs", "resolve"}

\* The snapshot the exchange gave thread t: the body of a 200 answer, else
\* nothing.
SnapshotOf(resp) == IF resp.status_code = 200 THEN resp.json ELSE EmptySnapshot

\* `changes` is present, non-empty, and its standard deviation exceeds the
\* threshold.
Exceeds(s, dev) ==
    /\ "changes" \in s.keys
    /\ s.changes # <<>>
    /\ Gt(StandardDeviationOf[s.changes].value, float(dev))

\* --------------------------------------------------------------- C1 -----
\* C1: for every snapshot the exchange answers with, the unit prints an
\* alert if and only if `changes` is non-empty and its standard deviation
\* exceeds the threshold; otherwise it prints no alert and produces no output
\* (debug tracing aside): nothing on stdout, no traceback on stderr.
C1_AlertIffExceeds ==
    \A debug \in BOOLEAN : \A i \in 1..Len(run[debug].threads) :
        LET t == run[debug].threads[i]
        IN  (Terminated(t) /\ t.response.outcome = "answer")
                => IF Exceeds(SnapshotOf(t.response), deviation)
                   THEN Len(Alerts(t.out)) = 1
                   ELSE NonDebug(t.out) = <<>> /\ t.err = ""

\* --------------------------------------------------------------- C2 -----
\* C2: check_currency starts one thread per resolved pair, in order, none
\* twice and none skipped, and has returned only when every thread it
\* started has ended.
C2_JoinAllBarrier ==
    \A debug \in BOOLEAN :
        LET r == run[debug]
        IN  /\ Len(r.threads) <= Len(r.available_pairs)
            /\ \A i \in 1..Len(r.threads) : r.threads[i].pair = r.available_pairs[i]
            /\ (r.pc = "join" \/ (r.pc = "returned" /\ r.path = "joined"))
                   => Len(r.threads) = Len(r.available_pairs)
            /\ r.pc = "returned"
                   => \A i \in 1..Len(r.threads) : Terminated(r.threads[i])
            /\ r.joined <= Len(r.threads)
            /\ \A i \in 1..r.joined : Terminated(r.threads[i])

\* check_currency has returned after joining the threads of two pairs.
C2_Witness ==
    /\ run[FALSE].pc = "returned"
    /\ run[FALSE].path = "joined"
    /\ Len(run[FALSE].available_pairs) >= 2
    /\ Len(run[FALSE].threads) = Len(run[FALSE].available_pairs)

\* --------------------------------------------------------------- C3 -----
\* C3: for a requested pair other than ALL and a non-empty list of pairs:
\* a listed pair is resolved to the one-element list of that pair and
\* exactly one thread is started, for it; an unlisted pair is reported as
\* invalid and check_currency returns with no thread started and no ticker
\* request sent.
C3_SinglePair ==
    \A debug \in BOOLEAN :
        LET r == run[debug]
        IN  (currency # "ALL" /\ ListedPairs(r) /\ Resolved(r))
                => IF InSeq(currency, r.response.json)
                   THEN /\ r.available_pairs = <<currency>>
                        /\ r.path \in {"", "joined"}
                        /\ Launched(r) \subseteq {currency}
                        /\ Len(r.threads) <= 1
                        /\ r.pc \in {"join", "returned"} => Len(r.threads) = 1
                   ELSE /\ r.pc = "returned"
                        /\ r.path = "invalid_pair"
                        /\ r.threads = <<>>
                        /\ SymbolsOnly(r)
                        /\ NonDebug(r.stdout) =
                               <<Line("message", "Invalid currency pair", currency, NoData)>>

\* A pair listed among two was requested, and check_currency has returned
\* after running the one thread.
C3_Witness ==
    /\ currency # "ALL"
    /\ ListedPairs(run[FALSE])
    /\ Len(run[FALSE].response.json) >= 2
    /\ InSeq(currency, run[FALSE].response.json)
    /\ run[FALSE].pc = "returned"
    /\ Len(run[FALSE].threads) = 1

\* --------------------------------------------------------------- C4 -----
\* C4: when the symbols endpoint answers a status other than 200, or 200 with
\* an empty list, get_currency_pairs returns [] without raising, and
\* check_currency reports that no pairs are available and returns without
\* starting a thread, whatever pair was requested.
C4_NoPairs ==
    \A debug \in BOOLEAN :
        LET r == run[debug]
        IN  PairsUnavailable(r)
                => /\ r.available_pairs = <<>>
                   /\ r.pc \in {"resolve", "returned"}
                   /\ r.threads = <<>>
                   /\ SymbolsOnly(r)
                   /\ r.pc = "returned"
                          => /\ r.path = "no_pairs"
                             /\ NonDebug(r.stdout) =
                                    <<Line("message", "No currency pairs available.", "", NoData)>>

\* The symbols endpoint answered 500 to a run asked for one pair, and
\* check_currency has returned.
C4_Witness ==
    /\ currency # "ALL"
    /\ run[FALSE].response.outcome = "answer"
    /\ run[FALSE].response.status_code = 500
    /\ run[FALSE].pc = "returned"

\* --------------------------------------------------------------- C5 -----
\* C5: no fault propagates: neither check_currency nor any thread ends by
\* an exception, whatever the exchange does.
C5_NoFaultPropagates ==
    \A debug \in BOOLEAN :
        /\ run[debug].pc # "raised"
        /\ \A i \in 1..Len(run[debug].threads) : run[debug].threads[i].pc # "raised"

\* --------------------------------------------------------------- C6 -----
\* C6: with ALL requested and a non-empty list L of pairs, the pairs for
\* which threads are started are exactly the members of L.
C6_AllPairs ==
    \A debug \in BOOLEAN :
        LET r == run[debug]
        IN  (currency = "ALL" /\ ListedPairs(r) /\ Resolved(r))
                => /\ r.path \in {"", "joined"}
                   /\ Launched(r) \subseteq Range(r.response.json)
                   /\ r.pc \in {"join", "returned"}
                          => /\ Launched(r) = Range(r.response.json)
                             /\ Len(r.threads) = Len(r.response.json)

\* ALL was requested, two different pairs are listed and both threads are
\* started.
C6_Witness ==
    /\ currency = "ALL"
    /\ ListedPairs(run[FALSE])
    /\ Cardinality(Range(run[FALSE].response.json)) = 2
    /\ run[FALSE].pc = "join"

\* --------------------------------------------------------------- C8 -----
\* C8: whenever process_currency_pair is about to call
\* calculate_standard_deviation, the `changes` it passes is non-empty.
C8_NonEmptyAtCall ==
    \A debug \in BOOLEAN : \A i \in 1..Len(run[debug].threads) :
        run[debug].threads[i].pc = "calculate"
            => run[debug].threads[i].ticker_data.changes # <<>>

\* --------------------------------------------------------------- C9 -----
\* How a unit must end given only its own pair, its own ticker response, the
\* threshold and the log level: the exception that ends it, if any, and the
\* alerts it prints (without their timestamps).
ExpectedAlert(pair, s, level) ==
    [level |-> level, trading_pair |-> pair, last_price |-> s.close,
     average |-> format2f(AverageOf[s.changes]),
     change |-> format2f(Sub(float(s.close), float(s.open))),
     sdev |-> StandardDeviationOf[s.changes].value]

ExpectedOutcome(pair, resp, dev, level) ==
    LET s == SnapshotOf(resp)
    IN  IF resp.outcome = "timeout"
        THEN [pc |-> "raised", err |-> "Timeout", alerts |-> <<>>]
        ELSE IF "changes" \notin s.keys
        THEN [pc |-> "finished", err |-> "", alerts |-> <<>>]
        ELSE IF s.changes = <<>>
        THEN [pc |-> "raised", err |-> "ZeroDivisionError", alerts |-> <<>>]
        ELSE IF ~Exceeds(s, dev)
        THEN [pc |-> "finished", err |-> "", alerts |-> <<>>]
        ELSE IF ~({"open", "close"} \subseteq s.keys)
        THEN [pc |-> "raised", err |-> "KeyError", alerts |-> <<>>]
        ELSE [pc |-> "finished", err |-> "", alerts |-> <<ExpectedAlert(pair, s, level)>>]

\* How thread t ended.
Outcome(t) ==
    LET as == NonDebug(t.out)
    IN  [pc |-> t.pc, err |-> t.err,
         alerts |-> [k \in 1..Len(as) |->
                        [level |-> as[k].data.level, trading_pair |-> as[k].pair,
                         last_price |-> as[k].data.last_price,
                         average |-> as[k].data.average,
                         change |-> as[k].data.change,
                         sdev |-> as[k].data.sdev]]]

\* C9: every unit that has ended has ended as its own pair, its own ticker
\* response, the threshold and the log level determine, whatever its
\* siblings did or suffered; a unit that has not ended is untouched by its
\* siblings; and check_currency has returned only when all have ended.
C9_IndependentUnits ==
    \A debug \in BOOLEAN :
        LET r == run[debug]
        IN  /\ \A i \in 1..Len(r.threads) :
                LET t == r.threads[i]
                IN  /\ t.pc \in {"get_ticker_data", "calculate", "finished", "raised"}
                    /\ Terminated(t)
                           => Outcome(t) = ExpectedOutcome(t.pair, t.response, deviation, log_level)
                    /\ t.pc = "get_ticker_data"
                           => t.response = NoResponse /\ t.out = <<>> /\ t.err = ""
                    /\ t.pc = "calculate"
                           => /\ t.ticker_data = SnapshotOf(t.response)
                              /\ NonDebug(t.out) = <<>>
                              /\ t.err = ""
            /\ (r.pc = "returned" /\ r.path = "joined")
                   => \A i \in 1..Len(r.threads) : Terminated(r.threads[i])

\* check_currency has returned; one unit ended by an exception and a sibling
\* printed its alert.
C9_Witness ==
    /\ run[FALSE].pc = "returned"
    /\ \E i, j \in 1..Len(run[FALSE].threads) :
        /\ run[FALSE].threads[i].pc = "raised"
        /\ run[FALSE].threads[j].pc = "finished"
        /\ Len(Alerts(run[FALSE].threads[j].out)) = 1

\* -------------------------------------------------------------- C10 -----
\* A run without its debug tracing.
StripDebug(r) ==
    [r EXCEPT !.stdout = NonDebug(@),
              !.threads = [i \in 1..Len(@) |-> [@[i] EXCEPT !.out = NonDebug(@)]]]

\* C10: the run with --debug and the run without it, given the same command
\* line and the same exchange responses, are at the same place, have sent
\* the same requests, started the same threads, ended the same way and
\* printed the same lines, the debug tracing of the first aside.
C10_DebugNoEffect ==
    /\ StripDebug(run[TRUE]) = run[FALSE]
    /\ StripDebug(run[FALSE]) = run[FALSE]

\* Both runs have returned after a thread printed an alert; the run with
\* --debug printed tracing as well.
C10_Witness ==
    /\ run[TRUE].pc = "returned"
    /\ run[TRUE].path = "joined"
    /\ run[TRUE].stdout # <<>>
    /\ \E i \in 1..Len(run[TRUE].threads) :
        /\ Len(Alerts(run[TRUE].threads[i].out)) = 1
        /\ Len(run[TRUE].threads[i].out) > 1

\* --------------------------------------------------------------- C7 -----
\* The exact population variance of floats fs, for comparison with the
\* computed one.  With e0 the smallest exponent among fs, every fs[i] is the
\* integer X[i] in units of 2^e0, and
\*     variance = E / n^3  (in units of 4^e0),
\*     E = sum over i of (n * X[i] - sum of X)^2.
MinOf(S) == CHOOSE x \in S : \A y \in S : x <= y

MaxOf(S) == CHOOSE x \in S : \A y \in S : x >= y

Exponents(fs) == {fs[i].e : i \in {j \in 1..Len(fs) : fs[j].m # 0}}

UnitExp(fs) == IF Exponents(fs) = {} THEN 0 ELSE MinOf(Exponents(fs))

Units(fs) == [i \in 1..Len(fs) |-> Scaled(fs[i], UnitExp(fs))]

IntSum(xs) ==
    LET partial[i \in Nat] == IF i = 0 THEN 0 ELSE partial[i - 1] + xs[i]
    IN  partial[Len(xs)]

ExactE(fs) ==
    LET xs == Units(fs)
        n  == Len(fs)
        s  == IntSum(xs)
    IN  IntSum([i \in 1..n |-> (n * xs[i] - s) * (n * xs[i] - s)])

\* A float v >= 0 in units of 2^e, rounded down and rounded up.
FloorUnits(v, e) ==
    IF v.m = 0 THEN 0
    ELSE IF v.e >= e THEN v.m * Pow2(v.e - e) ELSE v.m \div Pow2(e - v.e)

CeilUnits(v, e) ==
    IF v.m = 0 THEN 0
    ELSE IF v.e >= e THEN v.m * Pow2(v.e - e)
    ELSE (v.m + Pow2(e - v.e) - 1) \div Pow2(e - v.e)

\* Two units in the last place of the largest of fs, in units of 2^e0.
Tolerance(fs) ==
    IF Exponents(fs) = {} THEN 0
    ELSE 2 * Pow2(MaxOf(Exponents(fs)) - UnitExp(fs))

\* v is within Tolerance(fs) of the square root of the exact population
\* variance of fs.
NearPopulationDeviation(v, fs) ==
    LET e0 == UnitExp(fs)
        n3 == Len(fs) * Len(fs) * Len(fs)
        hi == CeilUnits(v, e0) + Tolerance(fs)
        lo == IF FloorUnits(v, e0) > Tolerance(fs)
              THEN FloorUnits(v, e0) - Tolerance(fs) ELSE 0
    IN  /\ lo * lo * n3 <= ExactE(fs)
        /\ ExactE(fs) <= hi * hi * n3

Constant(ps) == \A i \in 1..Len(ps) : ps[i] = ps[1]

====
